---- MODULE Spec2Model ----
(***************************************************************************)
(* kexkill: a pool of MAXCONCUR connection slots, each driven through the  *)
(* SSH pre-authentication handshake (peer banner, own banner, KEXINIT) by  *)
(* one poll() loop.  Model of src/src/kexkill.c.                            *)
(*                                                                         *)
(* Bytes are the integers 0..255.  A receive buffer conn->buf is kept as   *)
(* the sequence of its bytes up to the last non-zero one: the C array has  *)
(* 2048 bytes, all zero after memset(), and every byte past the stored     *)
(* prefix is zero (Get).                                                   *)
(***************************************************************************)
EXTENDS Integers, Sequences, FiniteSets, TLC

VARIABLES
    conns,      \* conns[i]: fd, state, buflen, buf            (struct kk_conn)
    fdtable,    \* descriptors open in the process             (socket/close)
    stdfds,     \* descriptors the process was started with
    pfd,        \* pfd[i]: fd, events; revents is in ev       (kexkill)
    pc,         \* position of the control flow of main/kexkill
    idx,        \* loop index i of kexkill
    n,          \* n of kexkill: 1 + index of the last active slot
    k,          \* k of kexkill: successful opens of this run
    res,        \* resolved endpoints not tried yet            (main)
    wire,       \* wire[i]: bytes the peer sends that were not read yet
    rx,         \* rx[i]: the non-empty reads made on the open connection of slot i
    sent,       \* sent[i]: the writes made on the open connection of slot i
    ev,         \* the dispatch made by the last step: slot, calls made, their results
    hist        \* per pass: slots released, slots given an open attempt, and
                \* whether an entry dispatched in this pass had revents; per run
                \* of kexkill: the number of closed -> connected transitions

vars == <<conns, fdtable, stdfds, pfd, pc, idx, n, k, res, wire, rx, sent, ev, hist>>

----------------------------------------------------------------------------
(* Program constants *)

BufSize == 2048          \* sizeof conn->buf
BannerMax == 255         \* longest accepted banner line, CR LF included
MAXCONCUR == 2           \* slots of the pool (128 in the source, scaled down)

(* Bounds of the model *)

MaxOpens == 2            \* connections the endpoint accepts in one run
MaxKexinit == 2          \* KEXINIT sends a socket takes before it stops being writable
PoolKexinit == 1         \* the same in pool runs
ShortStream == 22        \* peer streams up to this length are split into reads at any byte
MaxReads == 3            \* non-empty reads made on one connection
NumAddrs == 2            \* resolved endpoints

kk_closed == "kk_closed"
kk_connected == "kk_connected"
kk_banner == "kk_banner"
kk_kexinit == "kk_kexinit"

CR == 13
LF == 10

Slots == 0 .. (MAXCONCUR - 1)

\* "SSH-2.0-"
SSH20 == <<83, 83, 72, 45, 50, 46, 48, 45>>

\* banner[] without its terminating NUL: "SSH-2.0-kexkill\r\n"
banner == <<83, 83, 72, 45, 50, 46, 48, 45, 107, 101, 120, 107, 105, 108, 108, 13, 10>>

\* kexinit[] without its terminating NUL
kexinit ==
    << 0, 0, 0, 204,
       8,
       20,
       103, 105, 118, 101, 32, 109, 101, 32, 99, 111, 111, 107, 105, 101, 115, 33,
       0, 0, 0, 54,
       100, 105, 102, 102, 105, 101, 45, 104, 101, 108, 108, 109, 97, 110, 45, 103, 114, 111, 117, 112, 49, 45, 115, 104, 97, 49, 44, 100, 105, 102, 102, 105, 101, 45, 104, 101, 108, 108, 109, 97, 110, 45, 103, 114, 111, 117, 112, 49, 52, 45, 115, 104, 97, 49,
       0, 0, 0, 15,
       115, 115, 104, 45, 100, 115, 115, 44, 115, 115, 104, 45, 114, 115, 97,
       0, 0, 0, 19,
       51, 100, 101, 115, 45, 99, 98, 99, 44, 97, 101, 115, 49, 50, 56, 45, 99, 98, 99,
       0, 0, 0, 19,
       51, 100, 101, 115, 45, 99, 98, 99, 44, 97, 101, 115, 49, 50, 56, 45, 99, 98, 99,
       0, 0, 0, 9,
       104, 109, 97, 99, 45, 115, 104, 97, 49,
       0, 0, 0, 9,
       104, 109, 97, 99, 45, 115, 104, 97, 49,
       0, 0, 0, 4,
       110, 111, 110, 101,
       0, 0, 0, 4,
       110, 111, 110, 101,
       0, 0, 0, 0,
       0, 0, 0, 0,
       0,
       0, 0, 0, 0,
       112, 97, 100, 100, 105, 110, 103, 33 >>

----------------------------------------------------------------------------
(* The receive buffer *)

Max(a, b) == IF a >= b THEN a ELSE b
Min(a, b) == IF a <= b THEN a ELSE b

\* conn->buf[j], j counted from 0
Get(b, j) == IF j + 1 <= Len(b) THEN b[j + 1] ELSE 0

RECURSIVE TrimLen(_, _)
TrimLen(b, m) == IF m = 0 THEN 0 ELSE IF b[m] # 0 THEN m ELSE TrimLen(b, m - 1)

\* the stored prefix of a buffer: trailing zero bytes are implicit
Norm(b) == SubSeq(b, 1, TrimLen(b, Len(b)))

\* the buffer after data was stored at offset off
Store(b, off, data) ==
    Norm([j \in 1 .. Max(Len(b), off + Len(data)) |->
            IF j > off /\ j <= off + Len(data) THEN data[j - off] ELSE Get(b, j - 1)])

\* memmove(conn->buf, conn->buf + src, cnt)
Memmove(b, src, cnt) ==
    Norm([j \in 1 .. Len(b) |-> IF j <= cnt THEN Get(b, src + j - 1) ELSE b[j]])

\* buf[0 .. buflen): the bytes the codec treats as received and not consumed
Content(conn) == [j \in 1 .. conn.buflen |-> Get(conn.buf, j - 1)]

----------------------------------------------------------------------------
(* kk_close, kk_connect *)

\* memset(conn, 0, sizeof *conn); conn->fd = -1; conn->state = kk_closed
ClosedConn == [fd |-> -1, state |-> kk_closed, buflen |-> 0, buf |-> <<>>]

\* kk_close: the slot afterwards; the descriptor it closes is conn.fd
KkClose(conn) == ClosedConn

\* close(fd) on the descriptor table; close(-1) fails with EBADF
CloseFd(tab, fd) == tab \ {fd}

\* socket() returns the lowest descriptor not in use
LowestFree(tab) == CHOOSE f \in 0 .. (Cardinality(tab)) : f \notin tab /\ \A g \in 0 .. (f - 1) : g \in tab

\* a kk_connect whose fail: path does not close the socket
KkConnect_Leak(conn, tab, outcome) ==
    LET fd == IF outcome = "nosocket" THEN -1 ELSE LowestFree(tab)
    IN  IF outcome = "ok"
        THEN [conn |-> [conn EXCEPT !.fd = fd, !.state = kk_connected],
              tab |-> tab \cup {fd}, ret |-> 0]
        ELSE [conn |-> conn, tab |-> tab \cup ({fd} \ {-1}), ret |-> -1]

\* kk_connect: outcome "ok", "nosocket" (socket() fails) or "refused" (connect() fails)
KkConnect(conn, tab, outcome) ==
    LET fd == IF outcome = "nosocket" THEN -1 ELSE LowestFree(tab)
    IN  IF outcome = "ok"
        THEN [conn |-> [conn EXCEPT !.fd = fd, !.state = kk_connected],
              tab |-> tab \cup {fd}, ret |-> 0]
        ELSE [conn |-> conn, tab |-> CloseFd(tab \cup ({fd} \ {-1}), fd), ret |-> -1]

----------------------------------------------------------------------------
(* kk_input *)

\* where read() stores the bytes, as an offset into conn->buf
ReadDest(conn) == 0

\* a fail: path that gives up the descriptor without clearing the slot
Fail_KeepsBuffer(conn) ==
    [conn |-> [conn EXCEPT !.fd = -1, !.state = kk_closed], ret |-> -1, closed |-> TRUE]

\* the fail: label of kk_input and kk_output
Fail(conn) == [conn |-> KkClose(conn), ret |-> -1, closed |-> TRUE]

\* index of the first CR in buf[0 .. buflen), buflen when there is none
FindCR(b, m) ==
    LET crs == {j \in 0 .. (Min(m, Len(b)) - 1) : b[j + 1] = CR}
    IN  IF crs = {} THEN m ELSE CHOOSE j \in crs : \A g \in crs : j <= g

\* strncmp(conn->buf, "SSH-2.0-", 8) == 0
HasPrefix(b) == \A j \in 0 .. 7 : Get(b, j) = SSH20[j + 1]

\* a length check that counts the bytes before the CR LF only
TooLong_BeforeCRLF(eop) == eop - 2 > BannerMax

\* eop - conn->buf > 255, eop pointing past the LF
TooLong(eop) == eop > BannerMax

\* the banner line ending at the CR at index cr: terminate at CR, check for
\* LF, check length, check banner, then shift the rest of the buffer down
BannerLineAt(conn, cr) ==
    LET b1 == Store(conn.buf, cr, <<0>>)
        eop == cr + 2
    IN  IF Get(conn.buf, cr + 1) # LF \/ TooLong(eop) \/ ~HasPrefix(b1)
        THEN Fail(conn)
        ELSE [conn |-> [conn EXCEPT !.buf = Memmove(b1, eop, conn.buflen - eop),
                                    !.buflen = @ - eop,
                                    !.state = kk_banner],
              ret |-> 0, closed |-> FALSE]

\* a kk_connected case that fails when the CR or the byte after it is missing
InputBanner_NoWait(conn) ==
    LET cr == FindCR(conn.buf, conn.buflen)
    IN  IF cr >= conn.buflen - 1 THEN Fail(conn) ELSE BannerLineAt(conn, cr)

\* case kk_connected: search for CR, wait for LF if not present
InputBanner(conn) ==
    LET cr == FindCR(conn.buf, conn.buflen)
    IN  IF cr >= conn.buflen - 1
        THEN [conn |-> conn, ret |-> 0, closed |-> FALSE]
        ELSE BannerLineAt(conn, cr)

\* len + 4 in size_t arithmetic, as the pair <<bits 16 and up, bits 0..15>>.
\* The decoded int is negative when buf[0] >= 128 and is sign-extended by the
\* conversion to a 64-bit size_t: bits 32.. of the sum are then all ones, unless
\* the carry out of bit 31 clears them, and are zero exactly when bits 16..31
\* are.  A 32-bit size_t has the same bits 0..31.
FrameSize(b) ==
    LET lo == Get(b, 2) * 256 + Get(b, 3) + 4
        hi == Get(b, 0) * 256 + Get(b, 1) + (lo \div 65536)
    IN  <<hi % 65536, lo % 65536>>

\* len + 4 > sizeof conn->buf
Oversize(fs) == fs[1] > 0 \/ fs[2] > BufSize

\* conn->buf[5] == 1
IsDisconnect(b) == Get(b, 5) = 1

\* case kk_kexinit
InputKexinit(conn) ==
    LET fs == FrameSize(conn.buf)
        eop == fs[2]
    IN  IF conn.buflen < 4
        THEN [conn |-> conn, ret |-> 0, closed |-> FALSE]
        ELSE IF Oversize(fs)
        THEN Fail(conn)
        ELSE IF eop > conn.buflen
        THEN [conn |-> conn, ret |-> 0, closed |-> FALSE]
        ELSE IF IsDisconnect(conn.buf)
        THEN [conn |-> KkClose(conn), ret |-> 0, closed |-> TRUE]
        ELSE [conn |-> [conn EXCEPT !.buf = Memmove(@, eop, conn.buflen - eop),
                                    !.buflen = @ - eop],
              ret |-> 0, closed |-> FALSE]

\* a full-buffer test that is off by one
BufferFull_OffByOne(conn) == conn.buflen > BufSize

\* conn->buflen == sizeof conn->buf: no read is made
BufferFull(conn) == conn.buflen = BufSize

\* kk_input; rd is what read() returns: rlen < 0 on error, else rlen bytes
KkInput(conn, rd) ==
    IF BufferFull(conn) THEN Fail(conn) @@ [didread |-> FALSE]
    ELSE IF rd.rlen < 0 THEN Fail(conn) @@ [didread |-> TRUE]
    ELSE LET c1 == [conn EXCEPT !.buf = Store(@, ReadDest(conn), rd.data),
                                !.buflen = @ + rd.rlen]
             r == CASE c1.state = kk_connected -> InputBanner(c1)
                    [] c1.state = kk_kexinit -> InputKexinit(c1)
                    [] OTHER -> [conn |-> c1, ret |-> 0, closed |-> FALSE]
         IN  r @@ [didread |-> TRUE]

----------------------------------------------------------------------------
(* kk_write, kk_output *)

\* the arrays kk_output writes from, by name
Message(msg) == IF msg = "banner" THEN banner ELSE kexinit

\* kk_write(conn, msg, sizeof msg - 1): all bytes are written (wr.ok), or
\* write() fails after wr.done bytes.  out is what went out: the array and
\* the number of its leading bytes
KkWrite(msg, wr) ==
    LET len == Len(Message(msg))
    IN  IF wr.ok THEN [ret |-> 0, out |-> <<[msg |-> msg, len |-> len]>>]
        ELSE [ret |-> -1,
              out |-> IF wr.done = 0 THEN <<>>
                      ELSE <<[msg |-> msg, len |-> Min(wr.done, len - 1)]>>]

\* a kk_output that leaves the state alone after the banner was sent
KkOutput_NoAdvance(conn, wr) ==
    CASE conn.state = kk_banner ->
            LET w == KkWrite("banner", wr)
            IN  IF w.ret # 0 THEN Fail(conn) @@ [out |-> w.out]
                ELSE [conn |-> conn, ret |-> 0, closed |-> FALSE, out |-> w.out]
      [] conn.state = kk_kexinit ->
            LET w == KkWrite("kexinit", wr)
            IN  IF w.ret # 0 THEN Fail(conn) @@ [out |-> w.out]
                ELSE [conn |-> conn, ret |-> 0, closed |-> FALSE, out |-> w.out]
      [] OTHER -> [conn |-> conn, ret |-> 0, closed |-> FALSE, out |-> <<>>]

\* a kk_output whose default case sends the banner
KkOutput_WritesAlways(conn, wr) ==
    CASE conn.state = kk_kexinit ->
            LET w == KkWrite("kexinit", wr)
            IN  IF w.ret # 0 THEN Fail(conn) @@ [out |-> w.out]
                ELSE [conn |-> conn, ret |-> 0, closed |-> FALSE, out |-> w.out]
      [] OTHER ->
            LET w == KkWrite("banner", wr)
            IN  IF w.ret # 0 THEN Fail(conn) @@ [out |-> w.out]
                ELSE [conn |-> IF conn.state = kk_banner
                               THEN [conn EXCEPT !.state = kk_kexinit] ELSE conn,
                      ret |-> 0, closed |-> FALSE, out |-> w.out]

\* kk_output
KkOutput(conn, wr) ==
    CASE conn.state = kk_banner ->
            LET w == KkWrite("banner", wr)
            IN  IF w.ret # 0 THEN Fail(conn) @@ [out |-> w.out]
                ELSE [conn |-> [conn EXCEPT !.state = kk_kexinit], ret |-> 0,
                      closed |-> FALSE, out |-> w.out]
      [] conn.state = kk_kexinit ->
            LET w == KkWrite("kexinit", wr)
            IN  IF w.ret # 0 THEN Fail(conn) @@ [out |-> w.out]
                ELSE [conn |-> conn, ret |-> 0, closed |-> FALSE, out |-> w.out]
      [] OTHER -> [conn |-> conn, ret |-> 0, closed |-> FALSE, out |-> <<>>]

----------------------------------------------------------------------------
(* The peer: what read(), write() and poll() can return *)

\* n copies of the byte "x"
Fill(m) == [j \in 1 .. m |-> 120]

\* "SSH-2.0-\r\n", the shortest banner kk_input accepts
B0 == SSH20 \o <<CR, LF>>

\* a banner line of m bytes before its CR LF
BannerLine(m) == SSH20 \o Fill(m - 8) \o <<CR, LF>>

\* byte streams a peer sends on one connection (codec runs)
CodecStreams ==
    { B0,
      SSH20 \o <<97, CR, LF>>,                      \* "SSH-2.0-a\r\n"
      <<88>> \o SSH20 \o <<97, CR, LF>>,            \* "XSSH-2.0-a\r\n"
      <<83, 83, 72, 45, 49, 46, 57, 57, 45, CR, LF>>, \* "SSH-1.99-\r\n"
      SSH20 \o <<CR, 97, LF>>,                      \* CR not followed by LF
      SSH20 \o <<CR, CR, LF>>,
      <<0, 0, 0, 2, 1, 0>>,                         \* a frame sent instead of a banner
      SSH20 \o <<79, 112, 101, 110, 83, 83, 72, 95, 57, 46, 48, CR, LF>>, \* "SSH-2.0-OpenSSH_9.0\r\n"
      B0 \o <<0, 0, 0, 2, 1, 0>>,
      B0 \o <<0, 0, 0, 2, 0, 1>>,                   \* disconnect
      B0 \o <<0, 0, 0, 2, 8, 20>> \o <<0, 0, 0>>,   \* a KEXINIT-typed frame, then 3 bytes
      B0 \o <<0, 0, 0, 2, 8, 20>> \o <<0, 0, 0, 2, 0, 1>>,
      B0 \o <<0, 0, 0, 0>> \o <<0, 0, 0, 2, 0, 1>>, \* declared length 0
      B0 \o <<0, 0, 0, 1, 7>> \o <<1, 0, 0, 0>>,    \* declared length 1
      B0 \o <<0, 0, 8, 0, 0, 0>>,                   \* declared length 2048
      B0 \o <<0, 0, 7, 253, 0, 0>>,                 \* declared length 2045
      B0 \o <<128, 0, 0, 0, 0, 0>>,                 \* declared length 2^31
      B0 \o <<255, 255, 255, 252, 0, 0>>,           \* declared length 2^32 - 4
      B0 \o <<255, 255, 255, 255, 0, 1>>,           \* declared length 2^32 - 1
      B0 \o <<0, 0, 7, 252, 8, 20>> \o Fill(BufSize - 6), \* declared length 2044
      BannerLine(253), BannerLine(254), BannerLine(255), BannerLine(256),
      Fill(BufSize + 2) }

\* byte streams a peer sends on one connection (pool runs)
PoolStreams ==
    { B0 \o <<0, 0, 0, 2, 0, 1>>, <<88, CR, LF>> }

\* the bytes of a sequence of reads
RECURSIVE Flat(_)
Flat(chunks) == IF chunks = <<>> THEN <<>> ELSE Head(chunks) \o Flat(Tail(chunks))

\* sizes read() can return when cap bytes can be read, of a stream of total
\* bytes: any size for a short stream, all or all but one of the bytes for a
\* long one
ReadSizes(cap, total) ==
    {m \in 1 .. cap : total <= ShortStream \/ m >= cap - 1}

\* results of read(conn->fd, ..., sizeof conn->buf - conn->buflen): an error,
\* rlen bytes of the peer's stream, or 0 at its end or for a zero-length read
Reads(conn, w, chunks) ==
    LET cap == Min(BufSize - conn.buflen, Len(w))
        sizes == IF Len(chunks) < MaxReads
                 THEN ReadSizes(cap, Len(Flat(chunks)) + Len(w)) ELSE {}
    IN  {[rlen |-> -1, data |-> <<>>]}
        \cup {[rlen |-> m, data |-> SubSeq(w, 1, m)] : m \in sizes}
        \cup (IF cap = 0 THEN {[rlen |-> 0, data |-> <<>>]} ELSE {})

\* the same in pool runs, where read() returns all the bytes that can be read
PoolReads(conn, w) ==
    LET cap == Min(BufSize - conn.buflen, Len(w))
    IN  {[rlen |-> -1, data |-> <<>>], [rlen |-> cap, data |-> SubSeq(w, 1, cap)]}

\* results of kk_write's write() loop
Writes == {[ok |-> TRUE, done |-> 0], [ok |-> FALSE, done |-> 0], [ok |-> FALSE, done |-> 5]}

\* the same in pool runs
PoolWrites == {[ok |-> TRUE, done |-> 0], [ok |-> FALSE, done |-> 5]}

\* the bytes of a sequence of writes
RECURSIVE SentBytes(_)
SentBytes(ws) ==
    IF ws = <<>> THEN <<>>
    ELSE SubSeq(Message(Head(ws).msg), 1, Head(ws).len) \o SentBytes(Tail(ws))

\* the number of bytes of a sequence of writes
RECURSIVE SentLen(_)
SentLen(ws) == IF ws = <<>> THEN 0 ELSE Head(ws).len + SentLen(Tail(ws))

\* the socket takes the banner and max KEXINIT messages
Writable(i, max) == SentLen(sent[i]) < Len(banner) + max * Len(kexinit)

NoEv == [slot |-> -1, kind |-> "none", revents |-> {}, pre |-> ClosedConn, rxpre |-> <<>>,
         rin |-> FALSE, inret |-> 0, didread |-> FALSE, rlen |-> 0, data |-> <<>>,
         mid |-> ClosedConn,
         rout |-> FALSE, outret |-> 0, sentpre |-> <<>>, out |-> <<>>]

\* one iteration of the dispatch loop on an active slot: kk_input when rin,
\* then kk_output when rout
IOStep(i, r, rin, rout, rd, wr) ==
    \E r1 \in {IF rin THEN KkInput(conns[i], rd)
               ELSE [conn |-> conns[i], ret |-> 0, closed |-> FALSE, didread |-> FALSE]} :
    \E r2 \in {IF rout THEN KkOutput(r1.conn, wr)
               ELSE [conn |-> r1.conn, ret |-> 0, closed |-> FALSE, out |-> <<>>]} :
    LET c0 == conns[i]
        got == IF rin /\ r1.didread /\ rd.rlen > 0 THEN rd.data ELSE <<>>
        tab1 == IF r1.closed THEN CloseFd(fdtable, c0.fd) ELSE fdtable
        tab2 == IF r2.closed THEN CloseFd(tab1, r1.conn.fd) ELSE tab1
    IN  /\ conns' = [conns EXCEPT ![i] = r2.conn]
        /\ fdtable' = tab2
        /\ wire' = [wire EXCEPT ![i] = IF r2.conn.state = kk_closed THEN <<>>
                                       ELSE SubSeq(@, Len(got) + 1, Len(@))]
        /\ rx' = [rx EXCEPT ![i] = IF r2.conn.state = kk_closed THEN <<>>
                                   ELSE IF got = <<>> THEN @ ELSE Append(@, got)]
        /\ sent' = [sent EXCEPT ![i] = IF r2.conn.state = kk_closed THEN <<>>
                                       ELSE @ \o r2.out]
        /\ ev' = [slot |-> i, kind |-> "io", revents |-> r, pre |-> c0, rxpre |-> rx[i],
                  rin |-> rin, inret |-> r1.ret, didread |-> r1.didread,
                  rlen |-> IF rin /\ r1.didread THEN rd.rlen ELSE 0, data |-> got,
                  mid |-> r1.conn,
                  rout |-> rout, outret |-> r2.ret, sentpre |-> sent[i], out |-> r2.out]

\* kk_close(&conns[i]) from the dispatch loop
HupStep(i, r) ==
    /\ conns' = [conns EXCEPT ![i] = KkClose(@)]
    /\ fdtable' = CloseFd(fdtable, conns[i].fd)
    /\ wire' = [wire EXCEPT ![i] = <<>>]
    /\ rx' = [rx EXCEPT ![i] = <<>>]
    /\ sent' = [sent EXCEPT ![i] = <<>>]
    /\ ev' = [NoEv EXCEPT !.slot = i, !.kind = "hup", !.revents = r,
                          !.pre = conns[i], !.rxpre = rx[i],
                          !.sentpre = sent[i]]

\* kk_connect(&conns[i], sa, salen); an accepted connection gets the stream s
ConnectStep(i, outcome, s) ==
    LET r == KkConnect(conns[i], fdtable, outcome)
    IN  /\ conns' = [conns EXCEPT ![i] = r.conn]
        /\ fdtable' = r.tab
        /\ wire' = [wire EXCEPT ![i] = IF r.ret = 0 THEN s ELSE <<>>]
        /\ rx' = [rx EXCEPT ![i] = <<>>]
        /\ sent' = [sent EXCEPT ![i] = <<>>]

----------------------------------------------------------------------------
(* Codec runs: one slot, the handlers called as the dispatch loop calls them *)

ZeroPfd == [i \in Slots |-> [fd |-> 0, events |-> {}]]

InitCommon ==
    /\ conns = [i \in Slots |-> ClosedConn]
    /\ pfd = ZeroPfd
    /\ idx = 0 /\ n = 0 /\ k = 0
    /\ wire = [i \in Slots |-> <<>>]
    /\ rx = [i \in Slots |-> <<>>]
    /\ sent = [i \in Slots |-> <<>>]
    /\ ev = NoEv
    /\ hist = [released |-> {}, attempted |-> {}, fired |-> FALSE, opened |-> 0]

InitCodec ==
    /\ InitCommon
    /\ stdfds = {0, 1, 2}
    /\ fdtable = stdfds
    /\ res = 0
    /\ pc = "codec"

\* a codec run is one lifetime of one connection
CodecConnect ==
    /\ pc = "codec"
    /\ conns[0].state = kk_closed
    /\ k = 0
    /\ k' = k + 1
    /\ \E s \in CodecStreams : ConnectStep(0, "ok", s)
    /\ ev' = NoEv
    /\ UNCHANGED <<stdfds, pfd, pc, idx, n, res, hist>>

CodecInput ==
    /\ pc = "codec"
    /\ conns[0].state # kk_closed
    /\ \E rd \in Reads(conns[0], wire[0], rx[0]) :
           IOStep(0, {"POLLIN"}, TRUE, FALSE, rd, [ok |-> TRUE, done |-> 0])
    /\ UNCHANGED <<stdfds, pfd, pc, idx, n, k, res, hist>>

CodecOutput ==
    /\ pc = "codec"
    /\ conns[0].state # kk_closed
    /\ Writable(0, MaxKexinit)
    /\ \E wr \in Writes : IOStep(0, {"POLLOUT"}, FALSE, TRUE, [rlen |-> 0, data |-> <<>>], wr)
    /\ UNCHANGED <<stdfds, pfd, pc, idx, n, k, res, hist>>

CodecInputOutput ==
    /\ pc = "codec"
    /\ conns[0].state # kk_closed
    /\ Writable(0, MaxKexinit)
    /\ \E rd \in Reads(conns[0], wire[0], rx[0]) :
           IOStep(0, {"POLLIN", "POLLOUT"}, TRUE, TRUE, rd, [ok |-> TRUE, done |-> 0])
    /\ UNCHANGED <<stdfds, pfd, pc, idx, n, k, res, hist>>

CodecHup ==
    /\ pc = "codec"
    /\ conns[0].state # kk_closed
    /\ HupStep(0, {"POLLHUP"})
    /\ UNCHANGED <<stdfds, pfd, pc, idx, n, k, res, hist>>

NextCodec == CodecConnect \/ CodecInput \/ CodecOutput \/ CodecInputOutput \/ CodecHup

SpecCodec == InitCodec /\ [][NextCodec]_vars

----------------------------------------------------------------------------
(* main and kexkill: the pool and the poll() loop *)

\* main: every slot closed with fd -1; one to NumAddrs resolved endpoints;
\* the process starts with stdin open or closed
Init ==
    /\ InitCommon
    /\ stdfds \in {{0, 1, 2}, {1, 2}}
    /\ fdtable = stdfds
    /\ res \in 1 .. NumAddrs
    /\ pc = "main"

\* top of the for (;;) body: memset(&pfd, 0, sizeof pfd); i = n = 0
StartPass ==
    /\ pfd' = ZeroPfd
    /\ idx' = 0
    /\ n' = 0
    /\ pc' = "topup"

\* main: kexkill(res->ai_addr, res->ai_addrlen) for the next endpoint
MainCall ==
    /\ pc = "main"
    /\ res > 0
    /\ res' = res - 1
    /\ k' = 0
    /\ StartPass
    /\ hist' = [released |-> {}, attempted |-> {}, fired |-> FALSE, opened |-> 0]
    /\ UNCHANGED <<conns, fdtable, stdfds, wire, rx, sent, ev>>

\* main: no endpoint left; freeaddrinfo(), exit(0)
MainExit ==
    /\ pc = "main"
    /\ res = 0
    /\ pc' = "exit0"
    /\ UNCHANGED <<conns, fdtable, stdfds, pfd, idx, n, k, res, wire, rx, sent, ev, hist>>

\* a top-up loop that stops at the first closed slot it finds
NeedsOpen_FirstOnly(i) ==
    conns[i].state = kk_closed /\ \A j \in Slots : j < i => conns[j].state # kk_closed

\* conns[i].state == kk_closed in the top-up loop
NeedsOpen(i) == conns[i].state = kk_closed

\* a count of open attempts, not of successful opens
CountOpen_Attempts(cnt, ret) == cnt + 1

\* if (kk_connect(&conns[i], sa, salen) == 0) k++
CountOpen(cnt, ret) == IF ret = 0 THEN cnt + 1 ELSE cnt

\* what kk_connect can meet: the endpoint accepts MaxOpens connections in a run
ConnectOutcomes == {"nosocket", "refused"} \cup (IF k < MaxOpens THEN {"ok"} ELSE {})

\* one iteration of the top-up loop
TopUp ==
    /\ pc = "topup"
    /\ idx < MAXCONCUR
    /\ IF NeedsOpen(idx)
       THEN \E outcome \in ConnectOutcomes :
               /\ \E s \in (IF outcome = "ok" THEN PoolStreams ELSE {<<>>}) :
                      ConnectStep(idx, outcome, s)
               /\ k' = CountOpen(k, KkConnect(conns[idx], fdtable, outcome).ret)
               /\ hist' = [hist EXCEPT !.attempted = @ \cup {idx},
                                       !.opened = IF conns'[idx].state = kk_connected
                                                  THEN @ + 1 ELSE @]
       ELSE UNCHANGED <<conns, fdtable, wire, rx, sent, k, hist>>
    /\ pfd' = [pfd EXCEPT ![idx] =
                  [fd |-> conns'[idx].fd,
                   events |-> IF conns'[idx].state = kk_closed THEN {"POLLNVAL"}
                              ELSE {"POLLIN", "POLLOUT", "POLLERR"}]]
    /\ n' = IF conns'[idx].state = kk_closed THEN n ELSE idx + 1
    /\ idx' = idx + 1
    /\ pc' = IF idx + 1 = MAXCONCUR THEN "check" ELSE "topup"
    /\ ev' = NoEv
    /\ UNCHANGED <<stdfds, res>>

\* a main that treats a run without a successful open as fatal
Return_ErrorExit ==
    /\ pc = "check"
    /\ n = 0
    /\ pc' = IF k > 0 THEN "exit0" ELSE "exit1"
    /\ UNCHANGED <<conns, fdtable, stdfds, pfd, idx, n, k, res, wire, rx, sent, ev, hist>>

\* if (n == 0) break; return (k); main breaks when k > 0, else goes on
Return ==
    /\ pc = "check"
    /\ n = 0
    /\ pc' = IF k > 0 THEN "exit0" ELSE "main"
    /\ UNCHANGED <<conns, fdtable, stdfds, pfd, idx, n, k, res, wire, rx, sent, ev, hist>>

GoPoll ==
    /\ pc = "check"
    /\ n # 0
    /\ pc' = "poll"
    /\ UNCHANGED <<conns, fdtable, stdfds, pfd, idx, n, k, res, wire, rx, sent, ev, hist>>

\* revents poll() can report for an open socket
RevChoices ==
    { {}, {"POLLIN"}, {"POLLOUT"}, {"POLLIN", "POLLOUT"}, {"POLLHUP"}, {"POLLERR"} }

\* poll() fails with an errno other than EINTR: err(1, "poll()")
PollFatal ==
    /\ pc = "poll"
    /\ pc' = "exit1"
    /\ hist' = [hist EXCEPT !.released = {}]
    /\ UNCHANGED <<conns, fdtable, stdfds, pfd, idx, n, k, res, wire, rx, sent, ev>>

\* poll() fails with EINTR: ret <= 0, continue
PollIntr ==
    /\ pc = "poll"
    /\ StartPass
    /\ hist' = [hist EXCEPT !.released = {}, !.attempted = {}, !.fired = FALSE]
    /\ UNCHANGED <<conns, fdtable, stdfds, k, res, wire, rx, sent, ev>>

\* poll() returns ret > 0 and the dispatch loop starts.  poll() has stored
\* the revents of every entry; the model draws those of entry i when the
\* dispatch loop reads them (Revs) and keeps them in ev.revents
PollEvents ==
    /\ pc = "poll"
    /\ idx' = 0
    /\ pc' = "dispatch"
    /\ hist' = [hist EXCEPT !.released = {}, !.fired = FALSE]
    /\ UNCHANGED <<conns, fdtable, stdfds, pfd, n, k, res, wire, rx, sent, ev>>

\* the revents poll() stored for entry i: none for a negative fd, POLLOUT
\* only for a socket that takes more bytes, and, ret being positive, some
\* event on at least one entry
Revs(i) ==
    {r \in RevChoices :
        /\ pfd[i].fd < 0 => r = {}
        /\ "POLLOUT" \in r => Writable(i, PoolKexinit)
        /\ (~hist.fired /\ \A j \in Slots : j > i => pfd[j].fd < 0) => r # {}}

\* pfd[i].fd == 0: the entry is passed over
Skipped(f) == f.fd = 0

\* pfd[i].revents & (POLLERR|POLLHUP)
HungUp(r) == r \cap {"POLLERR", "POLLHUP"} # {}

\* the slot was released by this step
Released(i) ==
    IF conns[i].state # kk_closed /\ conns'[i].state = kk_closed THEN {i} ELSE {}

\* end of one iteration of the dispatch loop; after the last one the next pass
NextDispatch(r) ==
    IF idx + 1 = MAXCONCUR
    THEN /\ StartPass
         /\ hist' = [hist EXCEPT !.released = @ \cup Released(idx), !.attempted = {},
                                 !.fired = FALSE]
    ELSE /\ idx' = idx + 1
         /\ hist' = [hist EXCEPT !.released = @ \cup Released(idx),
                                 !.fired = @ \/ r # {}]
         /\ UNCHANGED <<pfd, n, pc>>

DispatchSkip ==
    /\ pc = "dispatch"
    /\ Skipped(pfd[idx])
    /\ UNCHANGED <<conns, fdtable, wire, rx, sent>>
    /\ \E r \in Revs(idx) :
          /\ ev' = [NoEv EXCEPT !.slot = idx, !.kind = "skip", !.revents = r,
                                !.pre = conns[idx], !.mid = conns[idx],
                                !.rxpre = rx[idx], !.sentpre = sent[idx]]
          /\ NextDispatch(r)
    /\ UNCHANGED <<stdfds, k, res>>

DispatchHup ==
    /\ pc = "dispatch"
    /\ ~Skipped(pfd[idx])
    /\ \E r \in Revs(idx) :
          /\ HungUp(r)
          /\ HupStep(idx, r)
          /\ NextDispatch(r)
    /\ UNCHANGED <<stdfds, k, res>>

DispatchIO ==
    /\ pc = "dispatch"
    /\ ~Skipped(pfd[idx])
    /\ \E r \in Revs(idx) :
          /\ ~HungUp(r)
          /\ LET rin == "POLLIN" \in r
                 rout == "POLLOUT" \in r
             IN  \E rd \in (IF rin THEN PoolReads(conns[idx], wire[idx])
                            ELSE {[rlen |-> 0, data |-> <<>>]}) :
                 \E wr \in (IF rout THEN PoolWrites ELSE {[ok |-> TRUE, done |-> 0]}) :
                     IOStep(idx, r, rin, rout, rd, wr)
          /\ NextDispatch(r)
    /\ UNCHANGED <<stdfds, k, res>>

Next ==
    \/ MainCall \/ MainExit
    \/ TopUp \/ Return \/ GoPoll
    \/ PollFatal \/ PollIntr \/ PollEvents
    \/ DispatchSkip \/ DispatchHup \/ DispatchIO

Spec == Init /\ [][Next]_vars

----------------------------------------------------------------------------
(* Properties of the codec (checked under SpecCodec) *)

\* the last dispatch called kk_input on a slot and read() returned data
ReadEvent == ev.kind = "io" /\ ev.rin /\ ev.didread /\ ev.rlen > 0

\* the bytes read on the slot of the last dispatch, before it and after it
RxBefore == Flat(ev.rxpre)
RxAfter == Flat(ev.rxpre) \o ev.data

\* s is one banner line the protocol allows, CR LF included and nothing after it
ValidBanner(s) ==
    /\ Len(s) >= 10 /\ Len(s) <= BannerMax
    /\ \A j \in 1 .. 8 : s[j] = SSH20[j]
    /\ s[Len(s) - 1] = CR /\ s[Len(s)] = LF
    /\ \A j \in 1 .. (Len(s) - 2) : s[j] # CR

\* kk_input on a newly connected slot that reads all of s at once
OneRead(fd, s) ==
    KkInput([fd |-> fd, state |-> kk_connected, buflen |-> 0, buf |-> <<>>],
            [rlen |-> Len(s), data |-> s])

\* C1: a valid peer banner split into successive reads on a Connected slot
\* leaves the slot in the state (Banner), with the buflen and the buffer
\* content, that the delivery of the same bytes in one read leaves.
C1_FragmentedBannerAsWhole ==
    (ReadEvent /\ ev.pre.state = kk_connected /\ ValidBanner(RxAfter))
        => LET one == OneRead(ev.pre.fd, RxAfter).conn
           IN  /\ ev.mid.state = kk_banner
               /\ ev.mid.state = one.state
               /\ ev.mid.buflen = one.buflen
               /\ Content(ev.mid) = Content(one)

\* the bytes of s after its first line (the banner with its CR LF)
AfterBanner(s) ==
    LET cr == FindCR(s, Len(s))
    IN  SubSeq(s, cr + 3, Len(s))

\* t starts with the 4-byte length L of a packet with L + 4 <= capacity, L >= 2
FitsLength(t) ==
    /\ Len(t) >= 4
    /\ t[1] = 0 /\ t[2] = 0
    /\ t[3] * 256 + t[4] >= 2
    /\ t[3] * 256 + t[4] + 4 <= BufSize

Declared(t) == t[3] * 256 + t[4]

\* the read of the last dispatch, on a slot in KexInit, completed the first
\* packet the peer sent after its banner
FirstFrameCompleted ==
    /\ ReadEvent /\ ev.pre.state = kk_kexinit
    /\ ValidBanner(SubSeq(RxAfter, 1, FindCR(RxAfter, Len(RxAfter)) + 2))
    /\ FitsLength(AfterBanner(RxAfter))
    /\ Len(AfterBanner(RxAfter)) >= Declared(AfterBanner(RxAfter)) + 4
    /\ Len(AfterBanner(RxBefore)) < Declared(AfterBanner(RxAfter)) + 4

\* C2: in KexInit, once the whole frame of a packet of declared length L has
\* arrived, in however many reads, exactly its L + 4 bytes are removed from
\* the front of the buffer and the bytes received after it stay, in order.
C2_SplitPacketReassembled ==
    (FirstFrameCompleted /\ AfterBanner(RxAfter)[6] # 1)
        => LET t == AfterBanner(RxAfter)
           IN  /\ ev.mid.state = kk_kexinit
               /\ ev.mid.buflen = Len(t) - (Declared(t) + 4)
               /\ Content(ev.mid) = SubSeq(t, Declared(t) + 5, Len(t))

\* the first line of s is complete (a CR and the byte after it are there) and
\* is not a banner the protocol allows
BadBannerLine(s) ==
    LET cr == FindCR(s, Len(s))
    IN  /\ cr + 2 <= Len(s)
        /\ \/ cr > BannerMax
           \/ s[cr + 2] # LF
           \/ cr < 8
           \/ \E j \in 1 .. 8 : s[j] # SSH20[j]

\* C3: a peer whose banner line is too long, lacks the "SSH-2.0-" prefix or
\* has no LF after its CR never gets the slot to Banner, and the read that
\* delivers the terminator closes the slot with the failure return.
C3_BadBannerNeverAccepted ==
    /\ \A i \in Slots :
          (conns[i].state \in {kk_banner, kk_kexinit}) => ~BadBannerLine(Flat(rx[i]))
    /\ (ReadEvent /\ ev.pre.state = kk_connected
            /\ BadBannerLine(RxAfter) /\ ~BadBannerLine(RxBefore))
          => (ev.mid.state = kk_closed /\ ev.inret = -1)

\* the buffer as kk_input has it after its read
BufAfterRead == Store(ev.pre.buf, ReadDest(ev.pre), ev.data)

\* C4: in KexInit with 4 or more buffered bytes, a declared length L with
\* L + 4 above the capacity always closes the slot with the failure return.
C4_OversizeAlwaysCloses ==
    (ReadEvent /\ ev.pre.state = kk_kexinit /\ ev.pre.buflen + ev.rlen >= 4
        /\ \/ Get(BufAfterRead, 0) > 0
           \/ Get(BufAfterRead, 1) > 0
           \/ Get(BufAfterRead, 2) * 256 + Get(BufAfterRead, 3) + 4 > BufSize)
        => (ev.mid.state = kk_closed /\ ev.inret = -1)

\* C5: in KexInit a complete frame with message type 1, however it was split
\* into reads, closes the slot with kk_input returning 0.
C5_DisconnectClosesCleanly ==
    (FirstFrameCompleted /\ AfterBanner(RxAfter)[6] = 1)
        => (ev.mid.state = kk_closed /\ ev.inret = 0)

\* "SSH-2.0-Open", "SSH_9.0\r\n"
OpenSSH1 == SSH20 \o <<79, 112, 101, 110>>
OpenSSH2 == <<83, 83, 72, 95, 57, 46, 48, CR, LF>>

\* the last dispatch closed the slot for a cause outside the scenario: a
\* hang-up, a read error or a write error
ClosedFromOutside ==
    \/ ev.kind = "hup"
    \/ ev.kind = "io" /\ ev.rin /\ ev.didread /\ ev.rlen < 0
    \/ ev.kind = "io" /\ ev.rout /\ ev.outret = -1

\* C6: the peer sends "SSH-2.0-OpenSSH_9.0\r\n" as the two reads
\* "SSH-2.0-Open", "SSH_9.0\r\n" and nothing else: the connection sends the
\* banner once, then the KEXINIT bytes once, and stays in KexInit.
C6_SplitBannerScenario ==
    /\ (ev.kind # "none" /\ ev.slot = 0 /\ ev.pre.state # kk_closed
            /\ ev.rxpre \o (IF ev.data = <<>> THEN <<>> ELSE <<ev.data>>)
                   = <<OpenSSH1, OpenSSH2>>)
          => (conns[0].state = kk_closed => ClosedFromOutside)
    /\ (rx[0] = <<OpenSSH1, OpenSSH2>>)
          => /\ conns[0].state # kk_connected
             /\ conns[0].state = kk_banner => SentBytes(sent[0]) = <<>>
             /\ conns[0].state = kk_kexinit
                   => SentBytes(sent[0]) \in {banner, banner \o kexinit}

\* the last dispatch made the second read of the scenario of C7
C7_SecondRead ==
    /\ ReadEvent /\ ev.pre.state = kk_connected
    /\ ev.rxpre = <<(<<0, 0, 0, 2>>)>> /\ ev.data = <<1, 0>>

\* the last dispatch made the first read of the scenario of C7
C7_FirstRead ==
    /\ ReadEvent /\ ev.pre.state = kk_connected
    /\ ev.rxpre = <<>> /\ ev.data = <<0, 0, 0, 2>>

\* C7 as stated: after the reads 00 00 00 02 and 01 00, the first bytes of a
\* new connection, the slot is Closed and kk_input returned 0 on both.
C7_FrameBeforeBannerCloses ==
    /\ C7_FirstRead => ev.inret = 0
    /\ C7_SecondRead => (ev.mid.state = kk_closed /\ ev.inret = 0)

\* C7 as amended: kk_input returns 0 on both reads and the slot stays
\* Connected, the 6 bytes counted in buflen, waiting for a banner line.
C7_FrameBeforeBannerWaits ==
    /\ C7_FirstRead => (ev.inret = 0 /\ ev.mid.state = kk_connected /\ ev.mid.buflen = 4)
    /\ C7_SecondRead => (ev.inret = 0 /\ ev.mid.state = kk_connected /\ ev.mid.buflen = 6)

C7_Witness == C7_SecondRead /\ ev.inret = 0 /\ conns[0].state = kk_connected

\* C10: buflen never exceeds the capacity and is 0 in a Closed slot; a
\* readable event on a full buffer makes no read and closes the slot with
\* the failure return.
C10_BufferBounded ==
    /\ \A i \in Slots : conns[i].buflen <= BufSize
    /\ \A i \in Slots : conns[i].state = kk_closed => conns[i].buflen = 0
    /\ (ev.kind = "io" /\ ev.rin /\ ev.pre.buflen = BufSize)
          => (~ev.didread /\ ev.mid.state = kk_closed /\ ev.inret = -1)

C10_Witness ==
    /\ ev.kind = "io" /\ ev.rin /\ ev.pre.buflen = BufSize
    /\ conns[ev.slot].state = kk_closed /\ conns[ev.slot].buflen = 0

\* the whole banner[] array and the whole kexinit[] array, as writes
WholeBanner == [msg |-> "banner", len |-> Len(banner)]
WholeKexinit == [msg |-> "kexinit", len |-> Len(kexinit)]

\* the last dispatch called kk_output
WriteEvent == ev.kind = "io" /\ ev.rout

\* the first line of the buffer b holding m bytes is one kk_input accepts
AcceptedLine(b, m) ==
    LET cr == FindCR(b, m)
    IN  /\ cr + 2 <= m /\ cr >= 8 /\ Get(b, cr + 1) = LF
        /\ \A j \in 0 .. 7 : Get(b, j) = SSH20[j + 1]

LineBytes == FindCR(ev.data, Len(ev.data))

\* the last dispatch read, into the empty buffer of a Connected slot, data
\* whose first line begins with "SSH-2.0-" and ends with CR LF
WholeLineRead ==
    /\ ReadEvent /\ ev.pre.state = kk_connected /\ ev.pre.buflen = 0 /\ ev.rxpre = <<>>
    /\ AcceptedLine(ev.data, Len(ev.data))

\* the last read was accepted as a banner: exactly the line and its CR LF
\* were removed from the front of the buffer
LineAccepted ==
    /\ ev.mid.state = kk_banner /\ ev.inret = 0
    /\ ev.mid.buflen = Len(ev.data) - (LineBytes + 2)
    /\ Content(ev.mid) = SubSeq(ev.data, LineBytes + 3, Len(ev.data))

EofEvent ==
    /\ ev.kind = "io" /\ ev.rin /\ ev.didread /\ ev.rlen = 0
    /\ ev.pre.state # kk_closed /\ ev.pre.buflen < BufSize

\* C15: a read that returns 0 bytes and no error on an open slot closes the
\* slot with the failure return.
C15_ZeroReadCloses ==
    EofEvent => (ev.mid.state = kk_closed /\ ev.inret = -1)

\* the read of the last dispatch was made on a slot in KexInit and left it open
KexinitReadSurvived ==
    /\ ev.kind = "io" /\ ev.rin /\ ev.didread /\ ev.rlen >= 0
    /\ ev.pre.state = kk_kexinit /\ ev.mid.state = kk_kexinit

\* the buffer of conn starts with a complete frame: 4 bytes of length L and
\* the L bytes they announce
CompleteFrame(conn) ==
    /\ conn.buflen >= 4
    /\ Get(conn.buf, 0) = 0 /\ Get(conn.buf, 1) = 0
    /\ Get(conn.buf, 2) * 256 + Get(conn.buf, 3) + 4 <= conn.buflen

\* C17: a readable event on a slot in KexInit that leaves the slot open
\* leaves no complete frame in the buffer.
C17_FramingRepeated ==
    KexinitReadSurvived => ~CompleteFrame(ev.mid)

\* the buffer of the slot of the last dispatch as kk_input parses it
Parsed == [buf |-> BufAfterRead, buflen |-> ev.pre.buflen + ev.rlen]

\* the last dispatch read on a slot in KexInit and the buffer then started
\* with a complete frame of declared length 0 or 1
ShortFrameRead ==
    /\ ev.kind = "io" /\ ev.rin /\ ev.didread /\ ev.rlen >= 0
    /\ ev.pre.state = kk_kexinit
    /\ CompleteFrame(Parsed)
    /\ Get(Parsed.buf, 2) = 0 /\ Get(Parsed.buf, 3) <= 1

\* C19: a complete frame of declared length 0 or 1 is removed as an ordinary
\* packet and the slot stays in KexInit, whatever byte is at buffer offset 5.
C19_ShortFrameNotDisconnect ==
    ShortFrameRead =>
        /\ ev.mid.state = kk_kexinit /\ ev.inret = 0
        /\ ev.mid.buflen = Parsed.buflen - (Get(Parsed.buf, 3) + 4)

----------------------------------------------------------------------------
(* Properties of the pool (checked under Spec) *)

Active == {i \in Slots : conns[i].state # kk_closed}

\* C8: at most MAXCONCUR slots are active, and every slot released in a pass
\* has had its open attempt in the top-up of the next pass when that pass
\* reaches poll().
C8_ReleasedSlotReopened ==
    /\ Cardinality(Active) <= MAXCONCUR
    /\ pc \in {"check", "poll"} => hist.released \subseteq hist.attempted

C8_Witness ==
    /\ pc = "poll"
    /\ hist.released # {}
    /\ hist.released \subseteq hist.attempted
    /\ \E i \in hist.released : conns[i].state = kk_connected

\* C9: a slot is Closed exactly when its fd is -1; every active slot holds an
\* open descriptor of its own, and the process holds no other socket.
C9_HandleOwnership ==
    /\ \A i \in Slots : conns[i].state = kk_closed <=> conns[i].fd = -1
    /\ \A i \in Active : conns[i].fd \in fdtable \ stdfds
    /\ \A i, j \in Active : i # j => conns[i].fd # conns[j].fd
    /\ fdtable \ stdfds = {conns[i].fd : i \in Active}

C9_Witness ==
    /\ ev.kind \in {"hup", "io"}
    /\ ev.pre.state # kk_closed
    /\ conns[ev.slot].state = kk_closed
    /\ ev.pre.fd \notin fdtable
    /\ \E j \in Active : conns[j].fd \in fdtable
    /\ k = MaxOpens

\* C13: when every open attempt fails, kexkill returns 0 from its first pass
\* without calling poll(), and main then calls kexkill for the next resolved
\* endpoint or, when none is left, exits with status 0; only a failed poll()
\* ends the process with another status.
C13_AllRefusedReturnsZero ==
    [][ /\ pc' \in {"poll", "dispatch"} => k' > 0
        /\ (pc = "check" /\ k = 0) => (n = 0 /\ pc' = "main" /\ k' = 0)
        /\ pc = "main" => IF res > 0 THEN pc' = "topup" /\ res' = res - 1
                                    ELSE pc' = "exit0"
        /\ pc' = "exit1" => pc = "poll" ]_vars

C13_Witness ==
    /\ pc = "exit0" /\ k = 0 /\ res = 0
    /\ hist.attempted = Slots /\ hist.opened = 0
    /\ fdtable = stdfds

\* C14: kexkill returns only from a pass whose top-up left every slot Closed,
\* and k, the value it returns, is the number of closed -> connected
\* transitions of the run.
C14_ReturnsOpenCount ==
    /\ k = hist.opened
    /\ pc = "check" => (n = 0 <=> Active = {})
    /\ pc \in {"main", "exit0"} => Active = {}

C14_Witness ==
    /\ pc = "exit0" /\ k = MaxOpens /\ hist.opened = MaxOpens /\ Active = {}

\* C16: a step of the dispatch loop changes no slot but its own; when
\* kk_input or kk_output fails, the slot is Closed with its fields cleared
\* and its descriptor closed, and the loop goes on to the next entry or the
\* next pass; the process is ended only by a failed poll().
C16_FailureContained ==
    [][ /\ pc = "dispatch" =>
              /\ \A j \in Slots \ {idx} : conns'[j] = conns[j]
              /\ (ev'.kind = "io" /\ (ev'.inret = -1 \/ ev'.outret = -1)) =>
                    /\ conns'[idx] = ClosedConn
                    /\ conns[idx].fd \notin fdtable'
                    /\ fdtable' = fdtable \ {conns[idx].fd}
                    /\ pc' = IF idx + 1 = MAXCONCUR THEN "topup" ELSE "dispatch"
        /\ pc' = "exit1" => pc = "poll" ]_vars

C16_Witness ==
    /\ ev.kind = "io" /\ (ev.inret = -1 \/ ev.outret = -1)
    /\ ev.pre.state # kk_closed /\ conns[ev.slot] = ClosedConn
    /\ pc = "dispatch"
    /\ \E j \in Active : j # ev.slot /\ conns[j].fd \in fdtable

\* C18: an active slot for which poll() reports POLLERR or POLLHUP is
\* released by the dispatch loop in that pass, whatever its descriptor.
C18_HangupReleases ==
    (ev.kind # "none" /\ ev.pre.state # kk_closed /\ HungUp(ev.revents))
        => (ev.kind = "hup" /\ conns[ev.slot].state = kk_closed)

\* C20: entries of Closed slots go to poll() with a negative descriptor and
\* are dispatched no I/O; no read and no write is made on a Closed slot, and
\* a kk_output called after kk_input closed the slot writes nothing and
\* leaves the slot Closed.
C20_NoIOOnClosed ==
    /\ pc = "poll" => \A i \in Slots : conns[i].state = kk_closed => pfd[i].fd < 0
    /\ (ev.kind # "none" /\ ev.pre.state = kk_closed) =>
          (ev.revents = {} /\ ~ev.rin /\ ~ev.rout /\ ev.kind # "hup")
    /\ (ev.kind = "hup" \/ (ev.kind = "io" /\ (ev.rin \/ ev.rout))) =>
          (ev.pre.state # kk_closed /\ ev.pre.fd >= 0)
    /\ (ev.kind = "io" /\ ev.out # <<>>) => (ev.mid.state # kk_closed /\ ev.mid.fd >= 0)
    /\ (ev.kind = "io" /\ ev.rout /\ ev.mid.state = kk_closed) =>
          (ev.out = <<>> /\ ev.outret = 0 /\ conns[ev.slot] = ClosedConn)

C20_Witness ==
    /\ ev.kind = "io" /\ ev.rin /\ ev.rout
    /\ ev.pre.state # kk_closed /\ ev.mid.state = kk_closed
    /\ ev.out = <<>> /\ conns[ev.slot] = ClosedConn

====
